---------------------------- MODULE Spec2Model ----------------------------
(***************************************************************************)
(* A model of ical_toronto_waste.py: the batch pipeline                    *)
(*     process_data -> write_csv -> write_ics                              *)
(* together with the record parser (Pickup, parse_date) and the derived    *)
(* properties subject / description / url.                                 *)
(*                                                                         *)
(* Text.  TLA+ strings cannot be indexed, so a string the program looks    *)
(* INTO (a date field, a file name that is sorted) is a sequence: of       *)
(* one-character strings for a date field, of code points for a file name. *)
(* A string the program only builds or copies is a TLA+ string, built with *)
(* \o.  The module's strings are ASCII, so an emoji is written as the      *)
(* names of its code points, "[U+1F5D1]".                                  *)
(***************************************************************************)
EXTENDS Integers, Sequences, FiniteSets, TLC

VARIABLES
    schedules,            \* the schedules/ directory: file name -> [header, rows]
    glob_result,          \* what glob.glob returns: the names, in an arbitrary order
    disk,                 \* the output/ tree: path -> absent, or the lines it holds
    pc,                   \* where main() is
    file_idx,             \* process_data: index in sorted(glob_result) of the open file
    row_idx,              \* process_data: rows of the open file consumed so far
    data,                 \* the defaultdict(list), as an insertion-ordered sequence
    cal_idx,              \* write_csv / write_ics: index in data of the calendar being written
    ent_idx,              \* write_csv / write_ics: pickups of that calendar written so far
    now,                  \* the wall clock, in seconds after ClockBase
    ics_generation_time,  \* write_ics's local of that name
    err,                  \* the exception that ended the run, or NoError
    arg,                  \* the argument of the function under test (unit specifications)
    res                   \* its result

vars == <<schedules, glob_result, disk, pc, file_idx, row_idx, data, cal_idx,
          ent_idx, now, ics_generation_time, err, arg, res>>

-----------------------------------------------------------------------------
(* Bounds of the model *)

\* Most rows after the header in one input file.
MaxRows == 2

\* Most seconds the clock advances while write_ics runs.
MaxClock == 2

-----------------------------------------------------------------------------
(* Generic helpers *)

None == "None"

RECURSIVE Join(_, _)
\* str.join: sep.join(parts)
Join(sep, parts) ==
    IF parts = <<>> THEN ""
    ELSE IF Len(parts) = 1 THEN parts[1]
    ELSE parts[1] \o sep \o Join(sep, Tail(parts))

DigitChars == <<"0", "1", "2", "3", "4", "5", "6", "7", "8", "9">>

IsDigit(c) == \E i \in 1..10 : DigitChars[i] = c

DigitVal(c) == (CHOOSE i \in 1..10 : DigitChars[i] = c) - 1

RECURSIVE IntOf(_)
\* int() of a sequence of digit characters
IntOf(cs) ==
    IF cs = <<>> THEN 0
    ELSE 10 * IntOf(SubSeq(cs, 1, Len(cs) - 1)) + DigitVal(cs[Len(cs)])

\* '%02d' % n and '%04d' % n
Pad2(n) == DigitChars[((n \div 10) % 10) + 1] \o DigitChars[(n % 10) + 1]

Pad4(n) == Pad2(n \div 100) \o Pad2(n % 100)


RECURSIVE Split(_, _)
\* str.split(sep) of a sequence of characters: the pieces between the separators
Split(cs, sep) ==
    IF \A i \in 1..Len(cs) : cs[i] # sep THEN <<cs>>
    ELSE LET k == CHOOSE i \in 1..Len(cs) :
                      cs[i] = sep /\ \A j \in 1..(i - 1) : cs[j] # sep
         IN  <<SubSeq(cs, 1, k - 1)>> \o Split(SubSeq(cs, k + 1, Len(cs)), sep)

-----------------------------------------------------------------------------
(* Exceptions and results *)

NoError == [type |-> "None", text |-> "", args |-> <<>>]

\* An exception: its class, its message with {} where a value is interpolated,
\* and the values interpolated (sequences of characters).
Exception(type, text, args) == [type |-> type, text |-> text, args |-> args]

Return(v) == [ok |-> TRUE, value |-> v, exc |-> NoError]

Raise(e) == [ok |-> FALSE, value |-> None, exc |-> e]

-----------------------------------------------------------------------------
(* Module constants *)

CSV_OUT_PATH == "output/" \o "csv/"

ICS_OUT_PATH == "output/" \o "ics/"

\* A format is the sequence of its directives; "-" stands between them.
FormatDMY == <<"d", "m", "Y">>

FormatYMD == <<"Y", "m", "d">>

\* INPUT_DATE_FORMATS without its second format
OnlyDayFirstFormat == <<FormatDMY>>

INPUT_DATE_FORMATS == <<FormatDMY, FormatYMD>>

SUBJECT_GARBAGE == "Garbage Day"

EMOJI_GARBAGE == "[U+1F5D1]"

SUBJECT_RECYCLING == "Recycling Day"

EMOJI_RECYCLING == "[U+267B][U+FE0F]"

SUBJECT_YARD_WASTE == "Yard Waste"

EMOJI_YARD_WASTE == "[U+1F342]"

SUBJECT_CHRISTMAS_TREE == "Christmas Tree"

EMOJI_CHRISTMAS_TREE == "[U+1F384]"

URL_GARBAGE ==
    "https://www.toronto.ca/services-payments/recycling-organics-garbage/"
    \o "houses/what-goes-in-my-green-bin/"

URL_RECYCLING ==
    "https://www.toronto.ca/services-payments/recycling-organics-garbage/waste-wizard/"

-----------------------------------------------------------------------------
(* datetime.strptime and datetime.strftime *)

\* _strptime's regular expression of %d: 3[0-1]|[1-2]\d|0[1-9]|[1-9]| [1-9]
MatchDay(cs) ==
    \/ Len(cs) = 2 /\ cs[1] = "3" /\ cs[2] \in {"0", "1"}
    \/ Len(cs) = 2 /\ cs[1] \in {"1", "2"} /\ IsDigit(cs[2])
    \/ Len(cs) = 2 /\ cs[1] \in {"0", " "} /\ IsDigit(cs[2]) /\ cs[2] # "0"
    \/ Len(cs) = 1 /\ IsDigit(cs[1]) /\ cs[1] # "0"

\* of %m: 1[0-2]|0[1-9]|[1-9]
MatchMonth(cs) ==
    \/ Len(cs) = 2 /\ cs[1] = "1" /\ cs[2] \in {"0", "1", "2"}
    \/ Len(cs) = 2 /\ cs[1] = "0" /\ IsDigit(cs[2]) /\ cs[2] # "0"
    \/ Len(cs) = 1 /\ IsDigit(cs[1]) /\ cs[1] # "0"

\* of %Y: \d\d\d\d
MatchYear(cs) == Len(cs) = 4 /\ \A i \in 1..4 : IsDigit(cs[i])

MatchDirective(directive, cs) ==
    CASE directive = "d" -> MatchDay(cs)
      [] directive = "m" -> MatchMonth(cs)
      [] directive = "Y" -> MatchYear(cs)

\* int() of a matched group: leading white space is ignored
GroupValue(cs) == IF cs[1] = " " THEN IntOf(Tail(cs)) ELSE IntOf(cs)

IsLeap(year) == year % 4 = 0 /\ (year % 100 # 0 \/ year % 400 = 0)

DaysInMonth(year, month) ==
    IF month = 2 THEN (IF IsLeap(year) THEN 29 ELSE 28)
    ELSE IF month \in {4, 6, 9, 11} THEN 30 ELSE 31

\* The index of a directive in a format
DirectiveAt(format, directive) == CHOOSE i \in 1..Len(format) : format[i] = directive

\* datetime.strptime(date_str, format): the whole string must match the
\* format's pattern (the directives' groups hold no "-", so the groups are
\* the pieces between the "-"), and the groups must name a day that exists.
strptime(date_str, format) ==
    LET groups == Split(date_str, "-")
        unmatched == Exception("ValueError",
                         "time data {} does not match format", <<date_str>>)
    IN  IF Len(groups) # Len(format) THEN Raise(unmatched)
        ELSE IF \E i \in 1..Len(format) : ~MatchDirective(format[i], groups[i])
        THEN Raise(unmatched)
        ELSE LET year == GroupValue(groups[DirectiveAt(format, "Y")])
                 month == GroupValue(groups[DirectiveAt(format, "m")])
                 day == GroupValue(groups[DirectiveAt(format, "d")])
             IN  IF year < 1 \/ day > DaysInMonth(year, month)
                 THEN Raise(Exception("ValueError", "day is out of range", <<>>))
                 ELSE Return([year |-> year, month |-> month, day |-> day])

\* CSV_DATE_FORMAT with day and month exchanged: '%d-%m-%y'
CsvDateDayFirst(day) ==
    Pad2(day.day) \o "-" \o Pad2(day.month) \o "-" \o Pad2(day.year % 100)

\* datetime.strftime(day, '%m-%d-%y')
CSV_DATE_FORMAT(day) ==
    Pad2(day.month) \o "-" \o Pad2(day.day) \o "-" \o Pad2(day.year % 100)

\* datetime.strftime(day, '%Y%m%d')
ICS_DATE_FORMAT(day) == Pad4(day.year) \o Pad2(day.month) \o Pad2(day.day)

RECURSIVE parse_date_from(_, _)
\* the for loop of parse_date, from the i-th format on
parse_date_from(date_str, i) ==
    IF i > Len(INPUT_DATE_FORMATS)
    THEN Raise(Exception("ValueError",
                         "Date {} does not match any known format.", <<date_str>>))
    ELSE LET r == strptime(date_str, INPUT_DATE_FORMATS[i])
         IN  IF r.ok THEN r ELSE parse_date_from(date_str, i + 1)

parse_date(date_str) == parse_date_from(date_str, 1)

-----------------------------------------------------------------------------
(* class Pickup *)

\* Pickup.__init__(row): the row is unpacked into exactly 8 names, the date
\* is parsed, and a flag is true unless its field is the string "0".
Pickup(row) ==
    IF Len(row) < 8
    THEN Raise(Exception("ValueError",
             "not enough values to unpack (expected 8, got "
                 \o DigitChars[Len(row) + 1] \o ")", <<>>))
    ELSE IF Len(row) > 8
    THEN Raise(Exception("ValueError",
             "too many values to unpack (expected 8)", <<>>))
    ELSE LET day == parse_date(row[3])
         IN  IF ~day.ok THEN Raise(day.exc)
             ELSE Return([calendar |-> row[2],
                          day |-> day.value,
                          green_bin |-> row[4] # "0",
                          garbage |-> row[5] # "0",
                          recycling |-> row[6] # "0",
                          yard_waste |-> row[7] # "0",
                          christmas_tree |-> row[8] # "0"])

\* subject with its categories in the order of description
SubjectInDescriptionOrder(self) ==
    LET emoji1 == IF self.christmas_tree THEN <<EMOJI_CHRISTMAS_TREE>> ELSE <<>>
        types1 == IF self.christmas_tree THEN <<SUBJECT_CHRISTMAS_TREE>> ELSE <<>>
        emoji2 == IF self.garbage THEN Append(emoji1, EMOJI_GARBAGE) ELSE emoji1
        types2 == IF self.garbage THEN Append(types1, SUBJECT_GARBAGE) ELSE types1
        emoji3 == IF self.recycling THEN Append(emoji2, EMOJI_RECYCLING) ELSE emoji2
        types3 == IF self.recycling THEN Append(types2, SUBJECT_RECYCLING) ELSE types2
        emoji4 == IF self.yard_waste THEN Append(emoji3, EMOJI_YARD_WASTE) ELSE emoji3
        types4 == IF self.yard_waste THEN Append(types3, SUBJECT_YARD_WASTE) ELSE types3
    IN  Join("", emoji4) \o " " \o Join("/", types4)

\* Pickup.subject
subject(self) ==
    LET emoji1 == IF self.christmas_tree THEN <<EMOJI_CHRISTMAS_TREE>> ELSE <<>>
        types1 == IF self.christmas_tree THEN <<SUBJECT_CHRISTMAS_TREE>> ELSE <<>>
        emoji2 == IF self.yard_waste THEN Append(emoji1, EMOJI_YARD_WASTE) ELSE emoji1
        types2 == IF self.yard_waste THEN Append(types1, SUBJECT_YARD_WASTE) ELSE types1
        emoji3 == IF self.recycling THEN Append(emoji2, EMOJI_RECYCLING) ELSE emoji2
        types3 == IF self.recycling THEN Append(types2, SUBJECT_RECYCLING) ELSE types2
        emoji4 == IF self.garbage THEN Append(emoji3, EMOJI_GARBAGE) ELSE emoji3
        types4 == IF self.garbage THEN Append(types3, SUBJECT_GARBAGE) ELSE types3
    IN  Join("", emoji4) \o " " \o Join("/", types4)

\* description with its categories in the order of subject, Green Bin last
DescriptionInSubjectOrder(self) ==
    LET types1 == IF self.christmas_tree THEN <<"Christmas Tree">> ELSE <<>>
        types2 == IF self.yard_waste THEN Append(types1, "Yard Waste") ELSE types1
        types3 == IF self.recycling THEN Append(types2, "Recycling") ELSE types2
        types4 == IF self.garbage THEN Append(types3, "Garbage") ELSE types3
        types5 == IF self.green_bin THEN Append(types4, "Green Bin") ELSE types4
    IN  Join("/", types5)

\* Pickup.description
description(self) ==
    LET types1 == IF self.christmas_tree THEN <<"Christmas Tree">> ELSE <<>>
        types2 == IF self.garbage THEN Append(types1, "Garbage") ELSE types1
        types3 == IF self.recycling THEN Append(types2, "Recycling") ELSE types2
        types4 == IF self.green_bin THEN Append(types3, "Green Bin") ELSE types3
        types5 == IF self.yard_waste THEN Append(types4, "Yard Waste") ELSE types4
    IN  Join("/", types5)

\* Pickup.url
url(self) == IF self.recycling THEN URL_RECYCLING ELSE URL_GARBAGE

-----------------------------------------------------------------------------
(* Inputs *)

\* Date fields: day, month and year pieces, well-formed and not, joined
\* by "-" or "/" in either order.
DayPieces == {<<"1">>, <<"0", "1">>, <<"1", "5">>, <<"2", "9">>, <<"3", "1">>,
              <<"3", "2">>, <<"0", "0">>, <<" ", "5">>}

MonthPieces == {<<"3">>, <<"0", "3">>, <<"0", "2">>, <<"0", "6">>, <<"1", "2">>,
                <<"1", "3">>}

YearPieces == {<<"2", "0", "2", "4">>, <<"2", "0", "2", "3">>, <<"2", "4">>,
               <<"0", "0", "0", "0">>, <<"2", "0", "2", "4", "5">>}

DateStrings ==
    UNION {{d \o <<sep>> \o m \o <<sep>> \o y, y \o <<sep>> \o m \o <<sep>> \o d} :
           <<d, m, y, sep>> \in DayPieces \X MonthPieces \X YearPieces \X {"-", "/"}}

\* The date fields of the rows the pipeline is run on
Date_01_06_2024 == <<"0", "1", "-", "0", "6", "-", "2", "0", "2", "4">>

Date_2024_03_15 == <<"2", "0", "2", "4", "-", "0", "3", "-", "1", "5">>

Date_15_03_2024 == <<"1", "5", "-", "0", "3", "-", "2", "0", "2", "4">>

Date_2024s03s15 == <<"2", "0", "2", "4", "/", "0", "3", "/", "1", "5">>

FlagFields == {"0", "1", "", "00"}

Calendars == {"North", "Ward1"}

\* Rows of 8 fields with every combination of flag fields
FlagRows ==
    {<<"1", calendar, day, f[1], f[2], f[3], f[4], f[5]>> :
        <<calendar, day, f>> \in
            Calendars \X {Date_01_06_2024, Date_2024_03_15, Date_2024s03s15}
                      \X [1..5 -> FlagFields]}

-----------------------------------------------------------------------------
(* The pipeline's variables while a single function is under test *)

PipelineIdle ==
    /\ schedules = <<>>
    /\ glob_result = <<>>
    /\ disk = <<>>
    /\ file_idx = 0
    /\ row_idx = 0
    /\ data = <<>>
    /\ cal_idx = 0
    /\ ent_idx = 0
    /\ now = 0
    /\ ics_generation_time = None
    /\ err = NoError

PipelineVars == <<schedules, glob_result, disk, file_idx, row_idx, data,
                  cal_idx, ent_idx, now, ics_generation_time, err>>

(* parse_date on its own *)

InitParseDate ==
    /\ PipelineIdle
    /\ pc = "call"
    /\ arg \in DateStrings
    /\ res = None

CallParseDate ==
    /\ pc = "call"
    /\ res' = parse_date(arg)
    /\ pc' = "returned"
    /\ UNCHANGED <<PipelineVars, arg>>

SpecParseDate == InitParseDate /\ [][CallParseDate]_vars

(* Pickup and its properties on their own *)

InitPickup ==
    /\ PipelineIdle
    /\ pc = "call"
    /\ arg \in FlagRows
    /\ res = None

CallPickup ==
    /\ pc = "call"
    /\ LET pickup == Pickup(arg)
       IN  res' = IF pickup.ok
                  THEN [ok |-> TRUE,
                        pickup |-> pickup.value,
                        subject |-> subject(pickup.value),
                        description |-> description(pickup.value),
                        url |-> url(pickup.value)]
                  ELSE [ok |-> FALSE, exc |-> pickup.exc]
    /\ pc' = "returned"
    /\ UNCHANGED <<PipelineVars, arg>>

SpecPickup == InitPickup /\ [][CallPickup]_vars

-----------------------------------------------------------------------------
(* The pipeline's inputs *)

\* ord() of the characters of the file names
Ord(c) ==
    CASE c = "-" -> 45
      [] c = "." -> 46
      [] c = "1" -> 49
      [] c = "A" -> 65
      [] c = "B" -> 66
      [] c = "c" -> 99
      [] c = "s" -> 115
      [] c = "v" -> 118

\* The files 'schedules/pickup-schedule-*.csv' may match, each named by what
\* follows 'schedules/pickup-schedule-': A.csv and A-1.csv.
File_A == <<"A", ".", "c", "s", "v">>

File_A_1 == <<"A", "-", "1", ".", "c", "s", "v">>

FileNames == {File_A, File_A_1}

HeaderRow ==
    <<"_id", "Calendar", <<"W", "e", "e", "k">>, "GreenBin", "Garbage",
      "Recycling", "YardWaste", "ChristmasTree">>

RowNorth == <<"1", "North", Date_01_06_2024, "1", "1", "0", "0", "0">>

RowWard1Mar == <<"2", "Ward1", Date_2024_03_15, "0", "1", "1", "0", "1">>

RowWard1Jan ==
    <<"3", "Ward1", <<"0", "2", "-", "0", "1", "-", "2", "0", "2", "4">>,
      "1", "0", "1", "1", "0">>

RowShort == <<"4", "North", Date_15_03_2024, "1", "1", "0", "0">>

RowBadDate == <<"5", "Ward1", Date_2024s03s15, "0", "1", "0", "0", "0">>

RowSamples == {RowNorth, RowWard1Mar, RowWard1Jan, RowShort, RowBadDate}

\* An input file is the sequence of its rows, the header first; a file of
\* no line at all is <<>>.
FileContents ==
    {<<>>} \cup {<<HeaderRow>> \o rows :
                    rows \in UNION {[1..n -> RowSamples] : n \in 0..MaxRows}}

\* The orders glob.glob may list a set of names in
Orders(names) ==
    {order \in [1..Cardinality(names) -> names] :
        \A i, j \in 1..Cardinality(names) : i # j => order[i] # order[j]}

\* Python's < on strings: by code point, a proper prefix first
StrLess(a, b) ==
    \E k \in 1..(Len(a) + 1) :
        /\ k <= Len(b)
        /\ \A i \in 1..(k - 1) : a[i] = b[i]
        /\ k > Len(a) \/ Ord(a[k]) < Ord(b[k])

RECURSIVE sorted(_)
\* sorted(names), the names distinct
sorted(names) ==
    IF names = <<>> THEN <<>>
    ELSE LET k == CHOOSE i \in 1..Len(names) :
                      \A j \in 1..Len(names) : j # i => StrLess(names[i], names[j])
         IN  <<names[k]>> \o
             sorted(SubSeq(names, 1, k - 1) \o SubSeq(names, k + 1, Len(names)))

\* The output files: a path holds no file, or the lines written to it.
Absent == [exists |-> FALSE, lines |-> <<>>]

File(lines) == [exists |-> TRUE, lines |-> lines]

CsvPath(calendar) == CSV_OUT_PATH \o calendar \o ".csv"

IcsPath(calendar) == ICS_OUT_PATH \o calendar \o ".ics"

OutputPaths == {CsvPath(c) : c \in Calendars} \cup {IcsPath(c) : c \in Calendars}

\* What an earlier run left behind
StaleFile == File(<<<<"stale">>>>)

OldDisk ==
    [p \in OutputPaths |->
        IF p \in {CsvPath("North"), IcsPath("Ward1")} THEN StaleFile ELSE Absent]

\* datetime.now(): the clock starts at 2024-01-01 00:00:00
datetime_now(seconds) ==
    [year |-> 2024, month |-> 1, day |-> 1, hour |-> 0,
     minute |-> (seconds \div 60) % 60, second |-> seconds % 60]

\* datetime.strftime(t, '%Y%m%dT%H%M%S')
ICS_DATETIME_FORMAT(t) ==
    Pad4(t.year) \o Pad2(t.month) \o Pad2(t.day) \o "T"
        \o Pad2(t.hour) \o Pad2(t.minute) \o Pad2(t.second)

-----------------------------------------------------------------------------
(* main(): process_data, write_csv, write_ics *)

Init ==
    /\ schedules \in UNION {[names -> FileContents] : names \in SUBSET FileNames}
    /\ glob_result \in Orders(DOMAIN schedules)
    /\ disk = OldDisk
    /\ pc = "process_data"
    /\ file_idx = 0
    /\ row_idx = 0
    /\ data = <<>>
    /\ cal_idx = 0
    /\ ent_idx = 0
    /\ now = 0
    /\ ics_generation_time = None
    /\ err = NoError
    /\ arg = None
    /\ res = None

\* The files in the order glob lists them, not sorted
FilesUnsorted == glob_result

\* The files process_data loops over
Files == sorted(glob_result)

\* The file process_data has open, and its lines
OpenFile == Files[file_idx + 1]

OpenLines == schedules[OpenFile]

\* data[calendar].append(pickup) on the defaultdict(list)
DictAppend(dict, calendar, pickup) ==
    IF \E i \in 1..Len(dict) : dict[i].calendar = calendar
    THEN LET i == CHOOSE i \in 1..Len(dict) : dict[i].calendar = calendar
         IN  [dict EXCEPT ![i].pickups = Append(@, pickup)]
    ELSE Append(dict, [calendar |-> calendar, pickups |-> <<pickup>>])

\* OpenInput passing over a file of no line instead of raising
OpenInputSkipsEmptyFile ==
    /\ pc = "process_data"
    /\ file_idx < Len(Files)
    /\ IF OpenLines = <<>>
       THEN /\ file_idx' = file_idx + 1
            /\ UNCHANGED <<pc, row_idx>>
       ELSE /\ pc' = "rows"
            /\ row_idx' = 0
            /\ UNCHANGED file_idx
    /\ UNCHANGED <<schedules, glob_result, disk, data, cal_idx, ent_idx,
                   now, ics_generation_time, err, arg, res>>

\* with open(file): the header is skipped; a file of no line has none
OpenInput ==
    /\ pc = "process_data"
    /\ file_idx < Len(Files)
    /\ IF OpenLines = <<>>
       THEN /\ pc' = "aborted"
            /\ err' = Exception("StopIteration", "", <<>>)
            /\ UNCHANGED row_idx
       ELSE /\ pc' = "rows"
            /\ row_idx' = 0
            /\ UNCHANGED err
    /\ UNCHANGED <<schedules, glob_result, disk, file_idx, data, cal_idx, ent_idx,
                   now, ics_generation_time, arg, res>>

\* ParseRow passing over a row Pickup raises on instead of ending the run
ParseRowSkipsMalformed ==
    /\ pc = "rows"
    /\ row_idx + 1 < Len(OpenLines)
    /\ LET pickup == Pickup(OpenLines[row_idx + 2])
       IN  data' = IF pickup.ok
                   THEN DictAppend(data, pickup.value.calendar, pickup.value)
                   ELSE data
    /\ row_idx' = row_idx + 1
    /\ UNCHANGED <<schedules, glob_result, disk, pc, file_idx, cal_idx, ent_idx,
                   now, ics_generation_time, err, arg, res>>

\* for row in lines: pickup = Pickup(row); data[pickup.calendar].append(pickup)
ParseRow ==
    /\ pc = "rows"
    /\ row_idx + 1 < Len(OpenLines)
    /\ LET pickup == Pickup(OpenLines[row_idx + 2])
       IN  IF pickup.ok
           THEN /\ data' = DictAppend(data, pickup.value.calendar, pickup.value)
                /\ row_idx' = row_idx + 1
                /\ UNCHANGED <<pc, err>>
           ELSE /\ pc' = "aborted"
                /\ err' = pickup.exc
                /\ UNCHANGED <<data, row_idx>>
    /\ UNCHANGED <<schedules, glob_result, disk, file_idx, cal_idx, ent_idx,
                   now, ics_generation_time, arg, res>>

\* the rows of the open file are exhausted
EndInput ==
    /\ pc = "rows"
    /\ row_idx + 1 = Len(OpenLines)
    /\ file_idx' = file_idx + 1
    /\ pc' = "process_data"
    /\ UNCHANGED <<schedules, glob_result, disk, row_idx, data, cal_idx, ent_idx,
                   now, ics_generation_time, err, arg, res>>

\* return data; main calls write_csv(data)
EndProcessData ==
    /\ pc = "process_data"
    /\ file_idx = Len(Files)
    /\ pc' = "write_csv"
    /\ cal_idx' = 0
    /\ UNCHANGED <<schedules, glob_result, disk, file_idx, row_idx, data, ent_idx,
                   now, ics_generation_time, err, arg, res>>

\* The calendar a serializer is at, and its pickups
Calendar == data[cal_idx + 1].calendar

Pickups == data[cal_idx + 1].pickups

CsvHeaderRow == <<"Subject", "Start Date", "All Day Event", "Description">>

\* The row write_csv writes for a pickup
CsvRowOf(pickup) ==
    <<subject(pickup), CSV_DATE_FORMAT(pickup.day), "TRUE",
      description(pickup) \o " - See " \o url(pickup)>>

\* open(f'{CSV_OUT_PATH}{calendar}.csv', 'w')
CsvOpen ==
    /\ pc = "write_csv"
    /\ cal_idx < Len(data)
    /\ disk' = [disk EXCEPT ![CsvPath(Calendar)] = File(<<>>)]
    /\ pc' = "csv_file"
    /\ UNCHANGED <<schedules, glob_result, file_idx, row_idx, data, cal_idx, ent_idx,
                   now, ics_generation_time, err, arg, res>>

CsvHeader ==
    /\ pc = "csv_file"
    /\ disk' = [disk EXCEPT ![CsvPath(Calendar)].lines = Append(@, CsvHeaderRow)]
    /\ pc' = "csv_rows"
    /\ ent_idx' = 0
    /\ UNCHANGED <<schedules, glob_result, file_idx, row_idx, data, cal_idx,
                   now, ics_generation_time, err, arg, res>>

\* CsvRow taking the pickups last to first
CsvRowReversed ==
    /\ pc = "csv_rows"
    /\ ent_idx < Len(Pickups)
    /\ disk' = [disk EXCEPT ![CsvPath(Calendar)].lines =
                                Append(@, CsvRowOf(Pickups[Len(Pickups) - ent_idx]))]
    /\ ent_idx' = ent_idx + 1
    /\ UNCHANGED <<schedules, glob_result, pc, file_idx, row_idx, data, cal_idx,
                   now, ics_generation_time, err, arg, res>>

\* for pickup in pickups: csv_writer.writerow(...)
CsvRow ==
    /\ pc = "csv_rows"
    /\ ent_idx < Len(Pickups)
    /\ disk' = [disk EXCEPT ![CsvPath(Calendar)].lines =
                                Append(@, CsvRowOf(Pickups[ent_idx + 1]))]
    /\ ent_idx' = ent_idx + 1
    /\ UNCHANGED <<schedules, glob_result, pc, file_idx, row_idx, data, cal_idx,
                   now, ics_generation_time, err, arg, res>>

\* the with block ends: the file is closed, the next calendar is taken
CsvClose ==
    /\ pc = "csv_rows"
    /\ ent_idx = Len(Pickups)
    /\ cal_idx' = cal_idx + 1
    /\ pc' = "write_csv"
    /\ UNCHANGED <<schedules, glob_result, disk, file_idx, row_idx, data, ent_idx,
                   now, ics_generation_time, err, arg, res>>

\* write_csv returns; main calls write_ics(data)
EndWriteCsv ==
    /\ pc = "write_csv"
    /\ cal_idx = Len(data)
    /\ pc' = "write_ics"
    /\ UNCHANGED <<schedules, glob_result, disk, file_idx, row_idx, data, cal_idx,
                   ent_idx, now, ics_generation_time, err, arg, res>>

\* ics_generation_time = datetime.strftime(datetime.now(), ICS_DATETIME_FORMAT)
IcsStamp ==
    /\ pc = "write_ics"
    /\ ics_generation_time' = ICS_DATETIME_FORMAT(datetime_now(now))
    /\ pc' = "ics_calendars"
    /\ cal_idx' = 0
    /\ UNCHANGED <<schedules, glob_result, disk, file_idx, row_idx, data, ent_idx,
                   now, err, arg, res>>

\* An ICS content line 'name:value\r\n' is the pair <<name, value>>.
IcsHeaderLines(calendar) ==
    << <<"BEGIN", "VCALENDAR">>,
       <<"VERSION", "2.0">>,
       <<"CALSCALE", "GREGORIAN">>,
       <<"METHOD", "PUBLISH">>,
       <<"PRODID", "https://github.com/mtpettyp/ical_toronto_waste">>,
       <<"X-WR-CALNAME", calendar \o " Waste Pickup">>,
       <<"X-WR-TIMEZONE", "America/Toronto">> >>

\* The lines write_ics writes for a pickup
VEvent(calendar, pickup, generation_time) ==
    << <<"BEGIN", "VEVENT">>,
       <<"URL;VALUE=URI", url(pickup)>>,
       <<"SUMMARY", subject(pickup)>>,
       <<"DTSTART;VALUE=DATE", ICS_DATE_FORMAT(pickup.day)>>,
       <<"DTSTAMP;VALUE=DATETIME", generation_time>>,
       <<"UID", ICS_DATE_FORMAT(pickup.day) \o calendar>>,
       <<"DESCRIPTION", description(pickup)>>,
       <<"TRANSP", "TRANSPARENT">>,
       <<"END", "VEVENT">> >>

\* IcsOpen with the generation time taken anew for each calendar
IcsOpenRestamps ==
    /\ pc = "ics_calendars"
    /\ cal_idx < Len(data)
    /\ disk' = [disk EXCEPT ![IcsPath(Calendar)] = File(<<>>)]
    /\ ics_generation_time' = ICS_DATETIME_FORMAT(datetime_now(now))
    /\ pc' = "ics_file"
    /\ UNCHANGED <<schedules, glob_result, file_idx, row_idx, data, cal_idx, ent_idx,
                   now, err, arg, res>>

\* open(f'{ICS_OUT_PATH}{calendar}.ics', 'w')
IcsOpen ==
    /\ pc = "ics_calendars"
    /\ cal_idx < Len(data)
    /\ disk' = [disk EXCEPT ![IcsPath(Calendar)] = File(<<>>)]
    /\ pc' = "ics_file"
    /\ UNCHANGED <<schedules, glob_result, file_idx, row_idx, data, cal_idx, ent_idx,
                   now, ics_generation_time, err, arg, res>>

IcsHeader ==
    /\ pc = "ics_file"
    /\ disk' = [disk EXCEPT ![IcsPath(Calendar)].lines = @ \o IcsHeaderLines(Calendar)]
    /\ pc' = "ics_events"
    /\ ent_idx' = 0
    /\ UNCHANGED <<schedules, glob_result, file_idx, row_idx, data, cal_idx,
                   now, ics_generation_time, err, arg, res>>

\* for pickup in pickups: the VEVENT block
IcsEvent ==
    /\ pc = "ics_events"
    /\ ent_idx < Len(Pickups)
    /\ disk' = [disk EXCEPT ![IcsPath(Calendar)].lines =
                    @ \o VEvent(Calendar, Pickups[ent_idx + 1], ics_generation_time)]
    /\ ent_idx' = ent_idx + 1
    /\ UNCHANGED <<schedules, glob_result, pc, file_idx, row_idx, data, cal_idx,
                   now, ics_generation_time, err, arg, res>>

\* END:VCALENDAR is written, the file is closed, the next calendar is taken
IcsClose ==
    /\ pc = "ics_events"
    /\ ent_idx = Len(Pickups)
    /\ disk' = [disk EXCEPT ![IcsPath(Calendar)].lines =
                                Append(@, <<"END", "VCALENDAR">>)]
    /\ cal_idx' = cal_idx + 1
    /\ pc' = "ics_calendars"
    /\ UNCHANGED <<schedules, glob_result, file_idx, row_idx, data, ent_idx,
                   now, ics_generation_time, err, arg, res>>

\* write_ics returns, and main with it
EndWriteIcs ==
    /\ pc = "ics_calendars"
    /\ cal_idx = Len(data)
    /\ pc' = "done"
    /\ UNCHANGED <<schedules, glob_result, disk, file_idx, row_idx, data, cal_idx,
                   ent_idx, now, ics_generation_time, err, arg, res>>

\* A serializer is about to open, write or close an output file
AtOutput ==
    \/ pc \in {"write_csv", "ics_calendars"} /\ cal_idx < Len(data)
    \/ pc \in {"csv_file", "csv_rows", "ics_file", "ics_events"}

\* OutputFails with the error caught: the calendar is given up, the loop goes on
OutputFailsSkipsCalendar ==
    /\ AtOutput
    /\ err' = Exception("OSError", "", <<>>)
    /\ cal_idx' = cal_idx + 1
    /\ pc' = IF pc \in {"write_csv", "csv_file", "csv_rows"}
             THEN "write_csv" ELSE "ics_calendars"
    /\ UNCHANGED <<schedules, glob_result, disk, file_idx, row_idx, data,
                   ent_idx, now, ics_generation_time, arg, res>>

\* The open, write or close raises OSError: nothing catches it, main ends
OutputFails ==
    /\ AtOutput
    /\ pc' = "aborted"
    /\ err' = Exception("OSError", "", <<>>)
    /\ UNCHANGED <<schedules, glob_result, disk, file_idx, row_idx, data, cal_idx,
                   ent_idx, now, ics_generation_time, arg, res>>

\* A second passes while write_ics runs (the clock is read nowhere else)
Tick ==
    /\ pc \in {"write_ics", "ics_calendars", "ics_file", "ics_events"}
    /\ now < MaxClock
    /\ now' = now + 1
    /\ UNCHANGED <<schedules, glob_result, disk, pc, file_idx, row_idx, data, cal_idx,
                   ent_idx, ics_generation_time, err, arg, res>>

Next ==
    \/ OpenInput
    \/ ParseRow
    \/ EndInput
    \/ EndProcessData
    \/ CsvOpen
    \/ CsvHeader
    \/ CsvRow
    \/ CsvClose
    \/ EndWriteCsv
    \/ IcsStamp
    \/ IcsOpen
    \/ IcsHeader
    \/ IcsEvent
    \/ IcsClose
    \/ EndWriteIcs
    \/ OutputFails
    \/ Tick

Spec == Init /\ [][Next]_vars

-----------------------------------------------------------------------------
(* What the properties below are stated with *)

\* A row Pickup cannot be built from
Malformed(row) == Len(row) # 8 \/ ~parse_date(row[3]).ok

\* process_data has returned its mapping
ProcessDataReturned ==
    \/ pc \in {"write_csv", "csv_file", "csv_rows", "write_ics", "ics_calendars",
               "ics_file", "ics_events", "done"}
    \/ pc = "aborted" /\ err.type = "OSError"

\* The input files in the order of Python's string comparison, written out:
\* 'A-1.csv' < 'A.csv', for '-' is U+002D and '.' is U+002E.
LexicographicOrder == <<File_A_1, File_A>>

PresentFiles == SelectSeq(LexicographicOrder, LAMBDA f : f \in DOMAIN schedules)

RECURSIVE RowsOfFiles(_)
\* The rows after the header of the given files, one file after the other
RowsOfFiles(names) ==
    IF names = <<>> THEN <<>>
    ELSE Tail(schedules[Head(names)]) \o RowsOfFiles(Tail(names))

RowsOfCalendar(c) == SelectSeq(RowsOfFiles(PresentFiles), LAMBDA row : row[2] = c)

\* The group of a calendar in data: data[c], or nothing when c is no key
GroupOf(c) ==
    IF \E i \in 1..Len(data) : data[i].calendar = c
    THEN data[CHOOSE i \in 1..Len(data) : data[i].calendar = c].pickups
    ELSE <<>>

IsKey(c) == \E i \in 1..Len(data) : data[i].calendar = c

\* C1: once process_data has returned, data holds one group per calendar
\* that occurs in the input and none for the others, and the group of each
\* calendar c is the rows whose calendar field is c, in the order of the
\* files sorted by name and then the order of the rows after the header:
\* the order of the dates plays no part.
C1_GroupsInFileThenRowOrder ==
    ProcessDataReturned =>
        /\ \A i, j \in 1..Len(data) : i # j => data[i].calendar # data[j].calendar
        /\ \A i \in 1..Len(data) : data[i].pickups # <<>>
        /\ \A c \in Calendars :
               LET rows == RowsOfCalendar(c)
               IN  /\ Len(GroupOf(c)) = Len(rows)
                   /\ \A k \in 1..Len(rows) : GroupOf(c)[k] = Pickup(rows[k]).value

\* glob lists A.csv before A-1.csv; both hold a Ward1 row, and the one of the
\* later file has the earlier date: the group keeps March before January.
C1_Witness ==
    /\ pc = "write_csv"
    /\ glob_result = <<File_A, File_A_1>>
    /\ schedules[File_A_1] = <<HeaderRow, RowWard1Mar>>
    /\ schedules[File_A] = <<HeaderRow, RowNorth, RowWard1Jan>>
    /\ Len(GroupOf("Ward1")) = 2
    /\ GroupOf("Ward1")[1].day.month = 3
    /\ GroupOf("Ward1")[2].day.month = 1

\* The line of the open file the row being parsed is on, as text
OpenLineNumber == <<DigitChars[row_idx + 3]>>

AbortedByRow == pc = "aborted" /\ err.type = "ValueError"

\* Every row process_data has got past is well-formed
ConsumedRowsWellFormed ==
    /\ \A i \in 1..file_idx :
           \A k \in 2..Len(schedules[Files[i]]) : ~Malformed(schedules[Files[i]][k])
    /\ pc \in {"rows", "aborted"} /\ err.type \in {"None", "ValueError"} =>
           \A k \in 2..(row_idx + 1) : ~Malformed(OpenLines[k])

\* C2 as stated: the error a malformed row raises names the offending file
\* and line.
C2_ErrorNamesFileAndLine ==
    AbortedByRow =>
        /\ \E i \in 1..Len(err.args) : err.args[i] = OpenFile
        /\ \E i \in 1..Len(err.args) : err.args[i] = OpenLineNumber

\* C2 as amended: no malformed row is got past, the run ends at the first
\* one with a ValueError; for a date of no supported format the message
\* carries the date field and nothing else, for a wrong field count it
\* carries no value of the input at all; neither names the file or the line.
C2_MalformedRowAborts ==
    /\ pc # "aborted" => ConsumedRowsWellFormed
    /\ AbortedByRow =>
           LET row == OpenLines[row_idx + 2]
           IN  /\ ConsumedRowsWellFormed
               /\ Malformed(row)
               /\ Len(row) = 8 =>
                      /\ err.text = "Date {} does not match any known format."
                      /\ err.args = <<row[3]>>
               /\ Len(row) # 8 => err.args = <<>>
               /\ \A i \in 1..Len(err.args) :
                      err.args[i] # OpenFile /\ err.args[i] # OpenLineNumber

\* The second file's second row has a date of no supported format
C2_Witness ==
    /\ AbortedByRow
    /\ file_idx = 1
    /\ row_idx = 1
    /\ OpenLines[row_idx + 2] = RowBadDate

\* The scenario of C3: the one input file pickup-schedule-A.csv holds the
\* header and the row (_, "North", "01-06-2024", 1, 1, 0, 0, 0), and the run
\* has ended without an error.
ScenarioNorthDone ==
    /\ pc = "done"
    /\ DOMAIN schedules = {File_A}
    /\ schedules[File_A] =
           <<HeaderRow,
             <<"1", "North", <<"0", "1", "-", "0", "6", "-", "2", "0", "2", "4">>,
               "1", "1", "0", "0", "0">> >>

\* C3 as stated: output/csv/North.csv holds the header row and the row of a
\* recycling-and-garbage day that points to the recycling URL.
C3_ScenarioRowAsStated ==
    ScenarioNorthDone =>
        disk["output/csv/North.csv"] =
            File(<< <<"Subject", "Start Date", "All Day Event", "Description">>,
                    <<"[U+267B][U+FE0F][U+1F5D1] Recycling Day/Garbage Day",
                      "06-01-24", "TRUE",
                      "Recycling/Garbage/Green Bin - See "
                          \o "https://www.toronto.ca/services-payments/"
                          \o "recycling-organics-garbage/waste-wizard/">> >>)

\* C3 as amended: the row's flag fields are green_bin = 1, garbage = 1 and
\* recycling = 0, so output/csv/North.csv holds the header row and the row
\* of a garbage day: subject "<wastebasket> Garbage Day", start date
\* "06-01-24", "TRUE", description "Garbage/Green Bin - See <garbage URL>".
C3_ScenarioRow ==
    ScenarioNorthDone =>
        disk["output/csv/North.csv"] =
            File(<< <<"Subject", "Start Date", "All Day Event", "Description">>,
                    <<"[U+1F5D1] Garbage Day", "06-01-24", "TRUE",
                      "Garbage/Green Bin - See "
                          \o "https://www.toronto.ca/services-payments/"
                          \o "recycling-organics-garbage/houses/"
                          \o "what-goes-in-my-green-bin/">> >>)

C3_Witness ==
    /\ ScenarioNorthDone
    /\ Len(disk["output/csv/North.csv"].lines) = 2

\* The categories of the subject and of the description, each in its order
SubjectCategories ==
    << [flag |-> "christmas_tree", emoji |-> "[U+1F384]", name |-> "Christmas Tree"],
       [flag |-> "yard_waste", emoji |-> "[U+1F342]", name |-> "Yard Waste"],
       [flag |-> "recycling", emoji |-> "[U+267B][U+FE0F]", name |-> "Recycling Day"],
       [flag |-> "garbage", emoji |-> "[U+1F5D1]", name |-> "Garbage Day"] >>

DescriptionCategories ==
    << [flag |-> "christmas_tree", name |-> "Christmas Tree"],
       [flag |-> "garbage", name |-> "Garbage"],
       [flag |-> "recycling", name |-> "Recycling"],
       [flag |-> "green_bin", name |-> "Green Bin"],
       [flag |-> "yard_waste", name |-> "Yard Waste"] >>

\* The categories of a list whose flag is true in the given flags
TrueOf(categories, flags) == SelectSeq(categories, LAMBDA c : flags[c.flag])

Emoji(categories) == [i \in 1..Len(categories) |-> categories[i].emoji]

Names(categories) == [i \in 1..Len(categories) |-> categories[i].name]

PickupBuilt == pc = "returned" /\ res.ok

\* C4: the subject of a pickup is the emoji of its true categories, a
\* space, and their names joined by "/", both in the order Christmas tree,
\* yard waste, recycling, garbage; the green-bin flag changes nothing, and
\* garbage alone gives "<wastebasket> Garbage Day".
C4_Subject ==
    PickupBuilt =>
        LET p == res.pickup
            on == TrueOf(SubjectCategories, p)
        IN  /\ res.subject = Join("", Emoji(on)) \o " " \o Join("/", Names(on))
            /\ subject([p EXCEPT !.green_bin = ~@]) = res.subject
            /\ (p.garbage /\ ~p.recycling /\ ~p.yard_waste /\ ~p.christmas_tree)
                   => res.subject = "[U+1F5D1] Garbage Day"

\* Every category is collected: the orders of subject and description differ
C4_Witness ==
    /\ PickupBuilt
    /\ arg[4] = "1" /\ arg[5] = "00" /\ arg[6] = "" /\ arg[7] = "1" /\ arg[8] = "1"
    /\ res.subject =
           "[U+1F384][U+1F342][U+267B][U+FE0F][U+1F5D1] "
               \o "Christmas Tree/Yard Waste/Recycling Day/Garbage Day"

\* C5: the description of a pickup is the names of its true categories
\* joined by "/" in the order Christmas Tree, Garbage, Recycling, Green Bin,
\* Yard Waste; its url is the recycling URL when recycling is true and the
\* garbage/green-bin URL otherwise; calendar and day play no part.
C5_DescriptionAndUrl ==
    PickupBuilt =>
        LET p == res.pickup
        IN  /\ res.description = Join("/", Names(TrueOf(DescriptionCategories, p)))
            /\ res.url =
                   IF p.recycling
                   THEN "https://www.toronto.ca/services-payments/"
                            \o "recycling-organics-garbage/waste-wizard/"
                   ELSE "https://www.toronto.ca/services-payments/"
                            \o "recycling-organics-garbage/houses/"
                            \o "what-goes-in-my-green-bin/"
            /\ \A c \in Calendars, d \in {[year |-> 2024, month |-> 6, day |-> 1],
                                          [year |-> 1999, month |-> 12, day |-> 31]} :
                   LET q == [p EXCEPT !.calendar = c, !.day = d]
                   IN  description(q) = res.description /\ url(q) = res.url

C5_Witness ==
    /\ PickupBuilt
    /\ arg[4] = "1" /\ arg[5] = "1" /\ arg[6] = "00" /\ arg[7] = "" /\ arg[8] = "1"
    /\ res.description = "Christmas Tree/Garbage/Recycling/Green Bin/Yard Waste"
    /\ res.url = URL_RECYCLING

\* C6: parse_date returns what the first format that matches gives, the
\* day-month-year format tried before the year-month-day one; "15-03-2024"
\* and "2024-03-15" give the same date; a string that matches neither, as
\* "2024/03/15", raises a ValueError whose message carries the string.
C6_ParseDate ==
    pc = "returned" /\ arg \in DateStrings =>
        LET dmy == strptime(arg, <<"d", "m", "Y">>)
            ymd == strptime(arg, <<"Y", "m", "d">>)
            march15 == [year |-> 2024, month |-> 3, day |-> 15]
        IN  /\ dmy.ok => res.ok /\ res.value = dmy.value
            /\ ~dmy.ok /\ ymd.ok => res.ok /\ res.value = ymd.value
            /\ ~dmy.ok /\ ~ymd.ok =>
                   /\ ~res.ok
                   /\ res.exc.type = "ValueError"
                   /\ res.exc.text = "Date {} does not match any known format."
                   /\ res.exc.args = <<arg>>
            /\ arg = Date_15_03_2024 => res.ok /\ res.value = march15
            /\ arg = Date_2024_03_15 => res.ok /\ res.value = march15
            /\ arg = Date_2024s03s15 => ~res.ok /\ res.exc.args = <<arg>>

\* The year-month-day string is parsed by the second format
C6_Witness ==
    /\ pc = "returned"
    /\ arg = Date_2024_03_15
    /\ res.ok
    /\ res.value = [year |-> 2024, month |-> 3, day |-> 15]

\* The values of the DTSTAMP lines among the given lines
DtstampValues(lines) ==
    {lines[i][2] : i \in {j \in 1..Len(lines) : lines[j][1] = "DTSTAMP;VALUE=DATETIME"}}

NoIcsFileTouched == \A c \in Calendars : disk[IcsPath(c)] = OldDisk[IcsPath(c)]

StampedOnceBeforeOpen ==
    /\ ics_generation_time = None => NoIcsFileTouched
    /\ \A c \in Calendars :
           \A v \in DtstampValues(disk[IcsPath(c)].lines) : v = ics_generation_time

\* C7: no calendar file is opened by write_ics before the generation time
\* is taken, the generation time once taken never changes, and every
\* DTSTAMP line of every calendar file carries it, however long the
\* writing takes.
C7_OneGenerationTime ==
    /\ []StampedOnceBeforeOpen
    /\ [][ics_generation_time # None => ics_generation_time' = ics_generation_time]_vars

\* Two calendars and three events are written, the clock moving on after
\* the time was taken
C7_Witness ==
    /\ pc = "done"
    /\ Len(data) = 2
    /\ ics_generation_time = "20240101T000001"
    /\ now = 2
    /\ Cardinality(DtstampValues(disk[IcsPath("North")].lines)
                   \cup DtstampValues(disk[IcsPath("Ward1")].lines)) = 1
    /\ Len(data[1].pickups) + Len(data[2].pickups) >= 3

RECURSIVE VEvents(_, _)
\* The VEVENT blocks of the given pickups of a calendar, one after the other
VEvents(calendar, pickups) ==
    IF pickups = <<>> THEN <<>>
    ELSE VEvent(calendar, Head(pickups), ics_generation_time)
             \o VEvents(calendar, Tail(pickups))

\* The files a group is to give
CsvFileOf(group) ==
    File(<<CsvHeaderRow>> \o
         [k \in 1..Len(group.pickups) |-> CsvRowOf(group.pickups[k])])

IcsFileOf(group) ==
    File(IcsHeaderLines(group.calendar) \o VEvents(group.calendar, group.pickups)
             \o << <<"END", "VCALENDAR">> >>)

Count(lines, line) == Cardinality({i \in 1..Len(lines) : lines[i] = line})

\* write_csv, then write_ics, has closed the file of the i-th group
CsvClosed(i) ==
    ProcessDataReturned /\ (ics_generation_time = None => i <= cal_idx)

IcsClosed(i) == ics_generation_time # None /\ i <= cal_idx

FilesAsGroups ==
    /\ \A i \in 1..Len(data) :
           /\ CsvClosed(i) =>
                  /\ disk[CsvPath(data[i].calendar)] = CsvFileOf(data[i])
                  /\ Len(disk[CsvPath(data[i].calendar)].lines)
                         = 1 + Len(data[i].pickups)
           /\ IcsClosed(i) =>
                  /\ disk[IcsPath(data[i].calendar)] = IcsFileOf(data[i])
                  /\ Count(disk[IcsPath(data[i].calendar)].lines, <<"BEGIN", "VEVENT">>)
                         = Len(data[i].pickups)
    /\ \A c \in Calendars :
           ~IsKey(c) => /\ disk[CsvPath(c)] = OldDisk[CsvPath(c)]
                        /\ disk[IcsPath(c)] = OldDisk[IcsPath(c)]

\* C8: the CSV file of a group, once closed, is the header row and one row
\* per pickup, and its ICS file, once closed, the calendar's head, one VEVENT
\* block per pickup and END:VCALENDAR, the k-th row and block made from the
\* k-th pickup; a calendar that is no group gets no file; and no step of a
\* serializer changes data.
C8_OneEntryPerPickupInOrder ==
    /\ []FilesAsGroups
    /\ [][ProcessDataReturned => data' = data]_vars

\* Both files of a group of two pickups, and of a second group, are closed
C8_Witness ==
    /\ pc = "done"
    /\ Len(data) = 2
    /\ Len(data[1].pickups) = 2
    /\ Len(disk[CsvPath(data[1].calendar)].lines) = 3
    /\ Count(disk[IcsPath(data[1].calendar)].lines, <<"END", "VEVENT">>) = 2

OutputFailed == err.type = "OSError"

FailureLeavesTheRest ==
    OutputFailed =>
        /\ pc = "aborted"
        /\ \A i \in 1..Len(data) :
               /\ CsvClosed(i) => disk[CsvPath(data[i].calendar)] = CsvFileOf(data[i])
               /\ IcsClosed(i) => disk[IcsPath(data[i].calendar)] = IcsFileOf(data[i])
               /\ (i > cal_idx + 1 /\ ics_generation_time = None) =>
                      disk[CsvPath(data[i].calendar)] = OldDisk[CsvPath(data[i].calendar)]
               /\ i > cal_idx + 1 =>
                      disk[IcsPath(data[i].calendar)] = OldDisk[IcsPath(data[i].calendar)]
        /\ ics_generation_time = None => NoIcsFileTouched

\* C9: when an open, write or close of an output file fails, the run has
\* ended and takes no further step; the files closed before the failure
\* hold their full content, and the files of the calendars after the one
\* being written (and every ICS file, when write_csv failed) are as they
\* were before the run.
C9_FailureStopsTheRun ==
    /\ []FailureLeavesTheRest
    /\ [][~OutputFailed]_vars

\* write_ics fails in the middle of its second file
C9_Witness ==
    /\ OutputFailed
    /\ ics_generation_time # None
    /\ cal_idx = 1
    /\ pc = "aborted"
    /\ Len(data) = 2
    /\ disk[IcsPath(data[1].calendar)] = IcsFileOf(data[1])
    /\ Len(disk[IcsPath(data[2].calendar)].lines) = 7

\* An input file has no header line, or a row Pickup cannot be built from
BadInput ==
    \E f \in DOMAIN schedules :
        \/ schedules[f] = <<>>
        \/ \E k \in 2..Len(schedules[f]) : Malformed(schedules[f][k])

\* C10: no output file is created or overwritten before process_data has
\* returned; when some input file has no header line or some row is
\* malformed, process_data never returns, the output files stay as they
\* were, and the run is either still reading its input (with a file to open
\* or a row to parse ahead of it) or aborted by that input.
C10_InputReadBeforeOutput ==
    /\ ~ProcessDataReturned => disk = OldDisk
    /\ BadInput =>
           /\ ~ProcessDataReturned
           /\ disk = OldDisk
           /\ \/ pc = "process_data" /\ file_idx < Len(Files)
              \/ pc = "rows" /\ row_idx + 1 <= Len(OpenLines)
              \/ pc = "aborted" /\ err.type \in {"ValueError", "StopIteration"}

\* The last row of the second file is short; the rows before it, of two
\* calendars, are well-formed
C10_Witness ==
    /\ pc = "aborted"
    /\ err.type = "ValueError"
    /\ file_idx = 1
    /\ row_idx = 1
    /\ OpenLines[row_idx + 2] = RowShort
    /\ Len(data) = 2
    /\ disk = OldDisk

=============================================================================
